---- MODULE Spec2Model ----
(***************************************************************************)
(* A model of dismal, a decoder/encoder for a small set of x86-64          *)
(* instructions: the register model (src/src/reg.rs), the instruction      *)
(* codec and the positioned stream decoder (src/src/lib.rs), and the       *)
(* earlier decoder kept in src/src/main.rs.                                *)
(***************************************************************************)
EXTENDS Integers, Sequences, FiniteSets, TLC

VARIABLES
    bytes,      \* the byte buffer handed to a decoder (InstIter.bytes)
    ip,         \* InstIter.ip: the base address of the buffer
    offset,     \* InstIter.offset: the cursor
    item,       \* what the last call of InstIter::next returned / a WithIp
    yielded,    \* the items InstIter::next has yielded so far, in order
    calls,      \* how many times InstIter::next has been called
    dec,        \* result of Inst::from_bytes(bytes) of lib.rs
    reenc,      \* result of to_bytes on the decoded instruction
    ilen,       \* result of len on the decoded instruction
    redec,      \* result of decoding the matched prefix followed by a tail
    decMain,    \* result of Inst::from_bytes(bytes) of main.rs
    reg_in,     \* the byte handed to Reg::try_parse
    reg_out,    \* what Reg::try_parse returned
    addr        \* what WithIp::abs_addr returned

vars == <<bytes, ip, offset, item, yielded, calls, dec, reenc, ilen, redec,
          decMain, reg_in, reg_out, addr>>

-----------------------------------------------------------------------------
(* Option<T>, and the value of a variable whose operation has not run.     *)

None == [tag |-> "None"]
Some(v) == [tag |-> "Some", val |-> v]
NotRun == [tag |-> "NotRun"]
\* A panic (unreachable!(), a slice index out of range, ...).
Panic == [tag |-> "Panic"]

-----------------------------------------------------------------------------
(* Bit operations on u8.                                                   *)

RECURSIVE BitAnd(_, _)
BitAnd(a, b) ==
    IF a = 0 \/ b = 0 THEN 0
    ELSE (a % 2) * (b % 2) + 2 * BitAnd(a \div 2, b \div 2)

RECURSIVE BitOr(_, _)
BitOr(a, b) ==
    IF a = 0 THEN b
    ELSE IF b = 0 THEN a
    ELSE (IF a % 2 = 1 \/ b % 2 = 1 THEN 1 ELSE 0)
         + 2 * BitOr(a \div 2, b \div 2)

\* !x on a u8
BitNot8(x) == 255 - x

-----------------------------------------------------------------------------
(* src/src/reg.rs                                                          *)

REG_MASK == \b00000111
HI_BIT == \b1000

\* The enum Reg, in declaration order.
LoRegs == <<"Rax", "Rcx", "Rdx", "Rbx", "Rsp", "Rbp", "Rsi", "Rdi">>
HiRegs == <<"R8", "R9", "R10", "R11", "R12", "R13", "R14", "R15">>
Reg == {LoRegs[i] : i \in 1..8} \cup {HiRegs[i] : i \in 1..8}

from_lo(bits) == IF bits \in 0..7 THEN Some(LoRegs[bits + 1]) ELSE None

from_hi(byte) == IF byte \in 0..7 THEN Some(HiRegs[byte + 1]) ELSE None

\* `is_lo` holds when HI_BIT is SET in the byte; the low table is then used.
try_parse(reg) ==
    LET is_lo == BitAnd(reg, HI_BIT) # 0
        r == BitAnd(reg, REG_MASK)
    IN IF is_lo THEN from_lo(r) ELSE from_hi(r)

is_hi(reg) == reg \in {"R8", "R9", "R10", "R11", "R12", "R13", "R14", "R15"}

is_lo(reg) == ~is_hi(reg)

\* unreachable!() for a register of the other half: no index is chosen.
to_lo(reg) == CHOOSE b \in 0..7 : LoRegs[b + 1] = reg

to_hi(reg) == CHOOSE b \in 0..7 : HiRegs[b + 1] = reg

base_bits(reg) == IF is_hi(reg) THEN to_hi(reg) ELSE to_lo(reg)

bits(reg) == IF is_hi(reg) THEN BitOr(to_hi(reg), HI_BIT) ELSE to_lo(reg)

\* Reg::from_lo_unchecked and Reg::from_hi_unchecked are called by lib.rs but
\* are not in reg.rs; they are the "from known-valid bits" constructors of
\* the specification: the register of the half, selected by the low 3 bits.
from_lo_unchecked(byte) == LoRegs[BitAnd(byte, REG_MASK) + 1]

from_hi_unchecked(byte) == HiRegs[BitAnd(byte, REG_MASK) + 1]

-----------------------------------------------------------------------------
(* Values of lib.rs: Arg, Inst, WithIp.                                    *)

ArgReg(r) == [kind |-> "Reg", reg |-> r]
ArgInt(n) == [kind |-> "Int", int |-> n]

Call(rel) == [op |-> "Call", rel |-> rel]
Call2(rel) == [op |-> "Call2", rel |-> rel]
Lea(r, a) == [op |-> "Lea", reg |-> r, arg |-> a]
Mov(r, a) == [op |-> "Mov", reg |-> r, arg |-> a]
Pop(r) == [op |-> "Pop", reg |-> r]
Push(a) == [op |-> "Push", arg |-> a]
Jmp(rel) == [op |-> "Jmp", rel |-> rel]
Ret == [op |-> "Ret"]
Syscall == [op |-> "Syscall"]
Xor(a, b) == [op |-> "Xor", reg |-> a, reg2 |-> b]

REX_W == \h48

\* i32::from_le_bytes([a, b, c, d])
i32_from_le_bytes(a, b, c, d) ==
    a + 256 * b + 65536 * c + 16777216 * (IF d >= 128 THEN d - 256 ELSE d)

\* i32::to_le_bytes
i32_to_le_bytes(v) ==
    <<v % 256, (v \div 256) % 256, (v \div 65536) % 256,
      (v \div 16777216) % 256>>

\* `*byte as i32` for a u8: the value is zero-extended.
u8_as_i32(byte) == byte

-----------------------------------------------------------------------------
(* src/src/lib.rs: the codec.                                              *)

\* The slice pattern [p1, ..., pk, ..]: the buffer starts with p.
StartsWith(b, p) == Len(b) >= Len(p) /\ SubSeq(b, 1, Len(p)) = p

\* The arm of the match of Inst::from_bytes that b selects, first match
\* wins: the instruction it builds and the number of bytes its pattern
\* names (n); None for the arm `_ => return None`.
matched(b) ==
    IF StartsWith(b, <<REX_W, \h8B, \h05>>) /\ Len(b) >= 7
    THEN Some([inst |-> Mov("Rax", ArgInt(i32_from_le_bytes(b[4], b[5], b[6], b[7]))),
               n |-> 7])
    ELSE IF StartsWith(b, <<REX_W, \h8D, \h0D>>) /\ Len(b) >= 7
    THEN Some([inst |-> Lea("Rcx", ArgInt(i32_from_le_bytes(b[4], b[5], b[6], b[7]))),
               n |-> 7])
    ELSE IF StartsWith(b, <<\hFF, \h25>>) /\ Len(b) >= 6
    THEN Some([inst |-> Jmp(i32_from_le_bytes(b[3], b[4], b[5], b[6])), n |-> 6])
    ELSE IF StartsWith(b, <<\hFF, \h15>>) /\ Len(b) >= 6
    THEN Some([inst |-> Call2(i32_from_le_bytes(b[3], b[4], b[5], b[6])), n |-> 6])
    ELSE IF StartsWith(b, <<\hE8>>) /\ Len(b) >= 5
    THEN Some([inst |-> Call(i32_from_le_bytes(b[2], b[3], b[4], b[5])), n |-> 5])
    ELSE IF Len(b) = 2 /\ b[1] = \h6A
    THEN Some([inst |-> Push(ArgInt(u8_as_i32(b[2]))), n |-> 2])
    ELSE IF StartsWith(b, <<\h0F, \h05>>)
    THEN Some([inst |-> Syscall, n |-> 2])
    ELSE IF Len(b) >= 2 /\ b[1] = \h41 /\ b[2] \in \h50..\h57
    THEN Some([inst |-> Push(ArgReg(from_hi_unchecked(b[2]))), n |-> 2])
    ELSE IF Len(b) >= 2 /\ b[1] = \h41 /\ b[2] \in \h58..\h5F
    THEN Some([inst |-> Pop(from_hi_unchecked(b[2])), n |-> 2])
    ELSE IF StartsWith(b, <<\hC3>>)
    THEN Some([inst |-> Ret, n |-> 1])
    ELSE IF Len(b) >= 1 /\ b[1] \in \h50..\h57
    THEN Some([inst |-> Push(ArgReg(from_lo_unchecked(b[1]))), n |-> 1])
    ELSE IF Len(b) >= 1 /\ b[1] \in \h58..\h5F
    THEN Some([inst |-> Pop(from_lo_unchecked(b[1])), n |-> 1])
    ELSE None

\* Inst::from_bytes
from_bytes(b) ==
    IF matched(b) = None THEN None ELSE Some(matched(b).val.inst)

\* The bytes an Encoder holds when into_vec is called.
Done(v) == [tag |-> "Done", val |-> v]

\* Encoder::write_u8, write_bytes, write_i32 append to the buffer.
write_u8(enc, value) == Append(enc, value)
write_bytes(enc, bs) == enc \o bs
write_i32(enc, value) == write_bytes(enc, i32_to_le_bytes(value))

\* Inst::to_bytes
to_bytes(self) ==
    IF self.op = "Call"
    THEN Done(write_i32(write_u8(<<>>, \hE8), self.rel))
    ELSE IF self.op = "Call2"
    THEN Done(write_i32(write_bytes(<<>>, <<\hFF, \h15>>), self.rel))
    ELSE IF self.op = "Lea" /\ self.reg = "Rcx" /\ self.arg.kind = "Int"
    THEN Done(write_i32(write_bytes(<<>>, <<REX_W, \h8D, \h0D>>), self.arg.int))
    ELSE IF self.op = "Jmp"
    THEN Done(write_i32(write_bytes(<<>>, <<\hFF, \h25>>), self.rel))
    ELSE IF self.op = "Mov" /\ self.reg = "Rax" /\ self.arg.kind = "Int"
    THEN Done(write_i32(write_bytes(<<>>, <<REX_W, \h8B, \h05>>), self.arg.int))
    ELSE IF self.op = "Pop"
    THEN IF is_hi(self.reg)
         THEN Done(write_bytes(<<>>, <<\h41, BitOr(\h58, base_bits(self.reg))>>))
         ELSE Done(write_u8(<<>>, BitOr(\h58, bits(self.reg))))
    ELSE IF self.op = "Push" /\ self.arg.kind = "Reg"
    THEN IF is_hi(self.arg.reg)
         THEN Done(write_bytes(<<>>, <<\h41, BitOr(\h50, base_bits(self.arg.reg))>>))
         ELSE Done(write_u8(<<>>, BitOr(\h50, bits(self.arg.reg))))
    ELSE IF self.op = "Ret"
    THEN Done(write_u8(<<>>, \hC3))
    ELSE IF self.op = "Syscall"
    THEN Done(write_bytes(<<>>, <<\h0F, \h05>>))
    ELSE Panic  \* _ => unreachable!()

\* Inst::rel_addr
rel_addr(self) ==
    IF self.op \in {"Call", "Call2", "Jmp"} THEN Some(self.rel)
    ELSE IF self.op = "Mov" /\ self.reg = "Rax" /\ self.arg.kind = "Int"
    THEN Some(self.arg.int)
    ELSE None

\* Inst::len with Push counted as two bytes whatever its operand.
len_push_two(self) ==
    CASE self.op = "Call" -> 5
      [] self.op = "Call2" -> 6
      [] self.op = "Lea" -> 7
      [] self.op = "Jmp" -> 6
      [] self.op = "Mov" -> 7
      [] self.op = "Pop" -> IF is_hi(self.reg) THEN 2 ELSE 1
      [] self.op = "Push" -> 2
      [] self.op = "Ret" -> 1
      [] self.op = "Syscall" -> 2
      [] self.op = "Xor" -> 3

\* Inst::len
len(self) ==
    CASE self.op = "Call" -> 5
      [] self.op = "Call2" -> 6
      [] self.op = "Lea" -> 7
      [] self.op = "Jmp" -> 6
      [] self.op = "Mov" -> 7
      [] self.op = "Pop" -> IF is_hi(self.reg) THEN 2 ELSE 1
      [] self.op = "Push" -> 1
      [] self.op = "Ret" -> 1
      [] self.op = "Syscall" -> 2
      [] self.op = "Xor" -> 3

\* WithIp::new
WithIp(p, inst) == [ip |-> p, inst |-> inst]

\* next_ip that forgets the length of the instruction.
next_ip_is_ip(self) == self.ip

\* WithIp::next_ip
next_ip(self) == self.ip + len(self.inst)

\* `addr as usize` for an isize: a negative value wraps around.
as_usize(v) == IF v >= 0 THEN v ELSE v + 2^64

\* WithIp::abs_addr: the sum is taken as isize and cast back to usize.
abs_addr(self) ==
    LET nip == next_ip(self)
        rel == rel_addr(self.inst)
    IN IF rel = None THEN None ELSE Some(as_usize(nip + rel.val))

-----------------------------------------------------------------------------
(* src/src/main.rs: the earlier decoder.                                   *)

try_parse_pop_one(byte) == try_parse(byte)

try_parse_pop_two(byte) == try_parse(BitAnd(byte, BitNot8(\b1000)))

\* Inst::from_bytes of main.rs; `?` returns None from the function.
main_from_bytes(b) ==
    IF StartsWith(b, <<REX_W, \h8D, \h0D>>) /\ Len(b) >= 7
    THEN Some(Lea("Rcx", ArgInt(i32_from_le_bytes(b[4], b[5], b[6], b[7]))))
    ELSE IF StartsWith(b, <<\hFF, \h15>>) /\ Len(b) >= 6
    THEN Some(Call(i32_from_le_bytes(b[3], b[4], b[5], b[6])))
    ELSE IF StartsWith(b, <<\h50>>)
    THEN Some(Push(ArgReg("Rax")))
    ELSE IF Len(b) = 2 /\ b[1] = \h6A
    THEN Some(Push(ArgInt(u8_as_i32(b[2]))))
    ELSE IF StartsWith(b, <<\h0F, \h05>>)
    THEN Some(Syscall)
    ELSE IF Len(b) >= 2 /\ b[1] = \h41
    THEN IF try_parse_pop_two(b[2]) = None THEN None
         ELSE Some(Pop(try_parse_pop_two(b[2]).val))
    ELSE IF StartsWith(b, <<\hC3>>)
    THEN Some(Ret)
    ELSE IF Len(b) >= 1
    THEN IF try_parse_pop_one(b[1]) = None THEN None
         ELSE Some(Pop(try_parse_pop_one(b[1]).val))
    ELSE None

-----------------------------------------------------------------------------
(* Inputs.                                                                 *)

\* How many pieces a generated buffer is made of.
MaxChunks == 2
\* How many times InstIter::next is called on one stream.
MaxCalls == 6

\* Single bytes: opcodes, prefixes, and bytes of no pattern.
ByteChunks ==
    {<<b>> : b \in {\h50, \h58, \h5F, \hC3, \h41, \h6A, \h0F, \h05, \h0B,
                    \hFF, \hE8, \h48}}

\* Pattern heads without their displacement, displacements, and a
\* displacement cut short.
PartChunks ==
    {<<REX_W, \h8B, \h05>>, <<REX_W, \h8D, \h0D>>, <<\hFF, \h25>>, <<\hFF, \h15>>,
     <<\h69, \h69, \h69, \h69>>, <<\hFE, \hFF, \hFF, \hFF>>,
     <<\h00, \h00, \h00, \h80>>, <<\h69, \h69, \h69>>}

\* Whole instructions (those of examples/foo.rs among them).
InstChunks ==
    {<<REX_W, \h8B, \h05, \h5C, \h4D, \h99, \h01>>,
     <<REX_W, \h8D, \h0D, \hFE, \hFF, \hFF, \hFF>>,
     <<\hFF, \h25, \h00, \h00, \h00, \h80>>,
     <<\hFF, \h15, \h69, \h69, \h69, \h69>>,
     <<\hE8, \h70, \hB2, \h5E, \h00>>,
     <<\h6A, \h7F>>, <<\h0F, \h05>>, <<\h41, \h57>>, <<\h41, \h5F>>}

Chunks == ByteChunks \cup PartChunks \cup InstChunks

RECURSIVE Flatten(_)
Flatten(ss) == IF ss = <<>> THEN <<>> ELSE Head(ss) \o Flatten(Tail(ss))

\* The stream of the specification's stream-termination example.
ExampleStream == <<\h50, \hFF, \h15, \h69, \h69, \h69, \h69, \h58, \hC3>>

Buffers ==
    {Flatten(ss) : ss \in UNION {[1..k -> Chunks] : k \in 0..MaxChunks}}
    \cup {ExampleStream}

\* Base addresses of a stream.
Bases == {0, \h1000}

\* Bytes appended after a matched pattern.
Tails == {<<\h00>>, <<\hC3>>, <<\h50, \h58>>}

\* Displacements and addresses for WithIp values built directly.
Disps == {-16, -1, 0, 1, \h69696969}
Ips == {16, \h1000, \h1001}

Insts ==
    {Call(d) : d \in Disps} \cup {Call2(d) : d \in Disps}
    \cup {Jmp(d) : d \in Disps}
    \cup {Mov("Rax", ArgInt(d)) : d \in Disps}
    \cup {Lea("Rcx", ArgInt(d)) : d \in Disps}
    \cup {Pop(r) : r \in Reg} \cup {Push(ArgReg(r)) : r \in Reg}
    \cup {Push(ArgInt(d)) : d \in Disps}
    \cup {Ret, Syscall, Xor("Rdi", "Rdi")}

-----------------------------------------------------------------------------
(* The stream decoder: InstIter.                                           *)

CodecIdle ==
    /\ dec = NotRun /\ reenc = NotRun /\ ilen = NotRun /\ redec = NotRun
    /\ decMain = NotRun
RegIdle == reg_in = 0 /\ reg_out = NotRun
StreamIdle == ip = 0 /\ offset = 0 /\ yielded = <<>> /\ calls = 0

\* InstIter::from_bytes(ip, bytes)
Init ==
    /\ bytes \in Buffers
    /\ ip \in Bases
    /\ offset = 0
    /\ item = NotRun
    /\ yielded = <<>>
    /\ calls = 0
    /\ addr = NotRun
    /\ CodecIdle /\ RegIdle

\* &self.bytes[self.offset..]
Rest == SubSeq(bytes, offset + 1, Len(bytes))

\* Iterator::next that skips the byte it could not decode.
IterNextResync ==
    /\ calls < MaxCalls
    /\ item # Panic
    /\ calls' = calls + 1
    /\ IF offset > Len(bytes)
       THEN /\ item' = Panic
            /\ UNCHANGED <<offset, yielded>>
       ELSE LET r == from_bytes(Rest) IN
            IF r.tag = "Some"
            THEN LET w == WithIp(ip + offset, r.val) IN
                 /\ offset' = offset + len(r.val)
                 /\ item' = Some(w)
                 /\ yielded' = Append(yielded, w)
            ELSE /\ item' = None
                 /\ offset' = IF offset < Len(bytes) THEN offset + 1 ELSE offset
                 /\ UNCHANGED yielded
    /\ UNCHANGED <<bytes, ip, dec, reenc, ilen, redec, decMain, reg_in,
                   reg_out, addr>>

\* Iterator::next for InstIter
IterNext ==
    /\ calls < MaxCalls
    /\ item # Panic
    /\ calls' = calls + 1
    /\ IF offset > Len(bytes)
       THEN \* the slice index is out of range
            /\ item' = Panic
            /\ UNCHANGED <<offset, yielded>>
       ELSE LET r == from_bytes(Rest) IN
            IF r.tag = "Some"
            THEN LET w == WithIp(ip + offset, r.val) IN
                 /\ offset' = offset + len(r.val)
                 /\ item' = Some(w)
                 /\ yielded' = Append(yielded, w)
            ELSE /\ item' = None
                 /\ UNCHANGED <<offset, yielded>>
    /\ UNCHANGED <<bytes, ip, dec, reenc, ilen, redec, decMain, reg_in,
                   reg_out, addr>>

Next == IterNext

Spec == Init /\ [][Next]_vars

-----------------------------------------------------------------------------
(* The codec applied to one buffer, as examples/foo.rs and main.rs do.     *)

InitCodec ==
    /\ bytes \in Buffers
    /\ item = NotRun
    /\ addr = NotRun
    /\ StreamIdle /\ CodecIdle /\ RegIdle

\* Inst::from_bytes(bytes)
Decode ==
    /\ dec = NotRun
    /\ dec' = from_bytes(bytes)
    /\ UNCHANGED <<bytes, ip, offset, item, yielded, calls, reenc, ilen,
                   redec, decMain, reg_in, reg_out, addr>>

\* inst.to_bytes() on the decoded instruction
Encode ==
    /\ dec.tag = "Some"
    /\ reenc = NotRun
    /\ reenc' = to_bytes(dec.val)
    /\ UNCHANGED <<bytes, ip, offset, item, yielded, calls, dec, ilen,
                   redec, decMain, reg_in, reg_out, addr>>

\* inst.len() on the decoded instruction
InstLen ==
    /\ dec.tag = "Some"
    /\ ilen = NotRun
    /\ ilen' = Some(len(dec.val))
    /\ UNCHANGED <<bytes, ip, offset, item, yielded, calls, dec, reenc,
                   redec, decMain, reg_in, reg_out, addr>>

\* Inst::from_bytes on the bytes of the matched pattern followed by a tail
Redecode ==
    /\ dec.tag = "Some"
    /\ redec = NotRun
    /\ \E t \in Tails :
         LET b == SubSeq(bytes, 1, matched(bytes).val.n) \o t IN
         redec' = [tag |-> "Ran", input |-> b, res |-> from_bytes(b)]
    /\ UNCHANGED <<bytes, ip, offset, item, yielded, calls, dec, reenc,
                   ilen, decMain, reg_in, reg_out, addr>>

\* Inst::from_bytes(bytes) of main.rs
DecodeMain ==
    /\ decMain = NotRun
    /\ decMain' = main_from_bytes(bytes)
    /\ UNCHANGED <<bytes, ip, offset, item, yielded, calls, dec, reenc,
                   ilen, redec, reg_in, reg_out, addr>>

NextCodec == Decode \/ Encode \/ InstLen \/ Redecode \/ DecodeMain

SpecCodec == InitCodec /\ [][NextCodec]_vars

-----------------------------------------------------------------------------
(* Reg::try_parse on every byte.                                           *)

InitReg ==
    /\ reg_in \in 0..255
    /\ reg_out = NotRun
    /\ bytes = <<>>
    /\ item = NotRun
    /\ addr = NotRun
    /\ StreamIdle /\ CodecIdle

TryParse ==
    /\ reg_out = NotRun
    /\ reg_out' = try_parse(reg_in)
    /\ UNCHANGED <<bytes, ip, offset, item, yielded, calls, dec, reenc,
                   ilen, redec, decMain, reg_in, addr>>

NextReg == TryParse

SpecReg == InitReg /\ [][NextReg]_vars

-----------------------------------------------------------------------------
(* WithIp::abs_addr on instructions built with WithIp::new.                *)

InitAddr ==
    /\ \E p \in Ips, i \in Insts : item = Some(WithIp(p, i))
    /\ addr = NotRun
    /\ bytes = <<>>
    /\ StreamIdle /\ CodecIdle /\ RegIdle

AbsAddr ==
    /\ item.tag = "Some"
    /\ addr = NotRun
    /\ addr' = [tag |-> "Ran", res |-> abs_addr(item.val)]
    /\ UNCHANGED <<bytes, ip, offset, item, yielded, calls, dec, reenc,
                   ilen, redec, decMain, reg_in, reg_out>>

NextAddr == AbsAddr

SpecAddr == InitAddr /\ [][NextAddr]_vars

-----------------------------------------------------------------------------
(* Properties.                                                             *)

\* The bytes of the pattern that matched the buffer.
MatchedBytes == SubSeq(bytes, 1, matched(bytes).val.n)

\* The buffer from the address a of a stream on.
BytesAt(a) == SubSeq(bytes, a - ip + 1, Len(bytes))

\* C1: round trip. Whenever Inst::from_bytes(bytes) is Some(i), i.to_bytes()
\* completes without panicking and equals the bytes of the matched pattern.
C1_RoundTrip ==
    (dec.tag = "Some" /\ reenc # NotRun) => reenc = Done(MatchedBytes)

\* The length the specification gives each instruction.
SpecLen(i) ==
    CASE i.op = "Call" -> 5
      [] i.op = "Call2" -> 6
      [] i.op = "Lea" -> 7
      [] i.op = "Mov" -> 7
      [] i.op = "Jmp" -> 6
      [] i.op = "Push" -> IF i.arg.kind = "Int" THEN 2
                          ELSE IF is_hi(i.arg.reg) THEN 2 ELSE 1
      [] i.op = "Pop" -> IF is_hi(i.reg) THEN 2 ELSE 1
      [] i.op = "Ret" -> 1
      [] i.op = "Syscall" -> 2

\* C2: length agrees with decoding. For every decoded instruction, len() is
\* the number of bytes of the matched pattern, which is the length the
\* specification lists for the instruction.
C2_LenAgrees ==
    (dec.tag = "Some" /\ ilen # NotRun) =>
        /\ ilen = Some(matched(bytes).val.n)
        /\ ilen = Some(SpecLen(dec.val))

\* C3: stream addressing. The first item is at the base address, each later
\* item is at the previous address plus the bytes the previous decode
\* consumed, each item is the decode of the buffer at its address, the
\* stream ends where decode fails, and the example stream yields four items
\* at 0x1000, 0x1001, 0x1007, 0x1008.
C3_StreamAddressing ==
    /\ Len(yielded) >= 1 => yielded[1].ip = ip
    /\ \A k \in 2..Len(yielded) :
         yielded[k].ip =
             yielded[k - 1].ip + matched(BytesAt(yielded[k - 1].ip)).val.n
    /\ \A k \in 1..Len(yielded) :
         from_bytes(BytesAt(yielded[k].ip)) = Some(yielded[k].inst)
    /\ item = None => from_bytes(Rest) = None
    /\ (bytes = ExampleStream /\ ip = \h1000 /\ item = None) =>
         [k \in 1..Len(yielded) |-> yielded[k].ip]
             = <<\h1000, \h1001, \h1007, \h1008>>

\* C4: relative address resolution. abs_addr of Call(d), Call2(d), Jmp(d) or
\* Mov(Rax, Int(d)) at address ip is Some(ip + len + d): the displacement is
\* applied to the address of the following instruction; for Lea, Pop, Push,
\* Ret, Syscall and Xor it is None.
C4_AbsAddr ==
    addr.tag = "Ran" =>
        LET w == item.val
            i == w.inst
        IN /\ i.op \in {"Call", "Call2", "Jmp"} =>
                addr.res = Some(w.ip + len(i) + i.rel)
           /\ (i.op = "Mov" /\ i.reg = "Rax" /\ i.arg.kind = "Int") =>
                addr.res = Some(w.ip + len(i) + i.arg.int)
           /\ i.op \in {"Lea", "Pop", "Push", "Ret", "Syscall", "Xor"} =>
                addr.res = None

\* A Call2 at 0x1001 with displacement -16 has been resolved to 0x1001 + 6 - 16.
C4_Witness ==
    /\ addr.tag = "Ran"
    /\ item.val = WithIp(\h1001, Call2(-16))
    /\ addr.res = Some(\h1001 + 6 - 16)

\* The head of b matches a row of the decode table of the specification.
InTable(b) ==
    \/ StartsWith(b, <<\h48, \h8B, \h05>>) /\ Len(b) >= 7
    \/ StartsWith(b, <<\h48, \h8D, \h0D>>) /\ Len(b) >= 7
    \/ StartsWith(b, <<\hFF, \h25>>) /\ Len(b) >= 6
    \/ StartsWith(b, <<\hFF, \h15>>) /\ Len(b) >= 6
    \/ StartsWith(b, <<\hE8>>) /\ Len(b) >= 5
    \/ StartsWith(b, <<\h6A>>) /\ Len(b) >= 2
    \/ StartsWith(b, <<\h0F, \h05>>)
    \/ StartsWith(b, <<\h41>>) /\ Len(b) >= 2 /\ b[2] \in \h50..\h5F
    \/ StartsWith(b, <<\hC3>>)
    \/ Len(b) >= 1 /\ b[1] \in \h50..\h5F

\* C5: unrecognized input. In both decoders, a buffer whose head matches no
\* row of the decode table (the empty buffer, a truncated pattern, 0F 0B)
\* decodes to None.
C5_Unrecognized ==
    /\ (dec # NotRun /\ ~InTable(bytes)) => dec = None
    /\ (decMain # NotRun /\ ~InTable(bytes)) => decMain = None

\* C6: Reg::try_parse(byte) never returns None, takes the register from the
\* low 3 bits, returns an extended register exactly when bit 0b1000 is set,
\* and so maps r.bits() back to r for each of the 16 registers.
C6_TryParse ==
    reg_out # NotRun =>
        /\ reg_out.tag = "Some"
        /\ base_bits(reg_out.val) = reg_in % 8
        /\ is_hi(reg_out.val) <=> (reg_in \div 8) % 2 = 1
        /\ \A r \in Reg : reg_in = bits(r) => reg_out = Some(r)

\* C7: trailing bytes are ignored. The bytes of a matched pattern followed
\* by any tail decode to the same instruction.
C7_TrailingIgnored ==
    redec.tag = "Ran" => redec.res = dec

\* C8: 6A ib decodes to Push of the sign-extended 8-bit value of ib.
C8_PushImmSignExtended ==
    (dec # NotRun /\ Len(bytes) = 2 /\ bytes[1] = \h6A) =>
        dec = Some(Push(ArgInt(IF bytes[2] < 128 THEN bytes[2]
                               ELSE bytes[2] - 256)))

\* C9: exhaustion is permanent. Once next has returned None, each later
\* call returns None and leaves the cursor where it was.
C9_ExhaustionPermanent ==
    [][item = None => (item' = None /\ offset' = offset)]_vars

\* next has returned None twice after yielding an instruction.
C9_Witness ==
    /\ item = None
    /\ Len(yielded) >= 1
    /\ calls >= Len(yielded) + 2

\* C10: the cursor stays within the buffer, so the slice taken by next is in
\* bounds and next does not panic; len() of a yielded instruction is at most
\* the number of bytes its pattern required.
C10_CursorInBounds ==
    /\ offset <= Len(bytes)
    /\ item # Panic
    /\ \A k \in 1..Len(yielded) :
         len(yielded[k].inst) <= matched(BytesAt(yielded[k].ip)).val.n

\* next has been called with the cursor at the end of a non-empty buffer.
C10_Witness ==
    /\ Len(bytes) > 0
    /\ offset = Len(bytes)
    /\ item = None

====
